---- MODULE Spec2Model ----
(***************************************************************************)
(* Model of app.py, the lecture voice-to-notes Streamlit script.           *)
(*                                                                         *)
(* Streamlit re-executes the whole script, top to bottom, on every user    *)
(* interaction; st.session_state survives between executions.  One action  *)
(* of the model is one execution of the script, triggered by one widget:   *)
(* a sidebar button, the upload form's submit button or the feedback       *)
(* button.  An exception nobody catches ends the execution at the raising  *)
(* line (Streamlit shows it and keeps the session), so every later line    *)
(* of that execution is skipped.                                           *)
(***************************************************************************)
EXTENDS Integers, Sequences, FiniteSets, TLC

VARIABLES
    transcript,           \* st.session_state.transcript
    notes,                \* st.session_state.notes
    quiz,                 \* st.session_state.quiz
    flashcards,           \* st.session_state.flashcards
    generate_quiz,        \* st.session_state.generate_quiz
    generate_flashcards,  \* st.session_state.generate_flashcards
    tempFiles,            \* temporary files on disk not yet unlinked
    feedback_log,         \* lines of feedback_log.txt
    submissions,          \* number of Process Audio executions that carried a file
    notesAttempts,        \* generate_study_notes calls made for the stored transcript
    notesFailed,          \* a generate_study_notes call for the stored transcript raised
    run,                  \* what the latest execution of the script did
    parseInput,           \* the flashcards text handed to the parsing loop
    cards,                \* the cards list the parsing loop built
    parsed                \* the parsing loop has run on parseInput

vars == << transcript, notes, quiz, flashcards, generate_quiz, generate_flashcards,
           tempFiles, feedback_log, submissions, notesAttempts, notesFailed, run,
           parseInput, cards, parsed >>

parserVars == << parseInput, cards, parsed >>

-----------------------------------------------------------------------------
(* Bounds of the model *)

MaxSubmissions == 2
MaxNotesAttempts == 2
MaxFeedback == 1
NumVariants == 2
MaxLines == 4
MaxBlocks == 3

(* len(st.session_state.transcript) > 50 *)
MinNotesLen == 50

-----------------------------------------------------------------------------
(* Values *)

None == [kind |-> "None"]

\* Texts recognize_google may return: 2, 50 and 51 characters long.
TextShort == "ok"
TextFifty == "Entropy measures the disorder of a closed system.."
TextLong == "Entropy measures the disorder of a closed system..."
RecognizedTexts == {TextShort, TextFifty, TextLong}

SentinelUnintelligible == "Sorry, could not understand the audio."
SentinelUnavailable == "Speech recognition service unavailable."

\* Outcomes of AudioSegment.from_file / export inside convert_to_wav.
ConvertOutcomes == {"ok", "UnsupportedFormat", "DecodeError"}

\* Outcomes of the speech recognition inside transcribe_audio: a text, one of
\* the two exceptions the function catches, or any other exception.
RecognizeOutcomes ==
    [kind : {"text"}, text : RecognizedTexts]
        \cup { [kind |-> k, text |-> ""] : k \in {"UnknownValueError", "RequestError", "OtherError"} }

\* Outcomes of gemini_generate: a response text (one of NumVariants possible
\* answers to the same prompt) or an exception.
GenerationFailed == 0
GenerateOutcomes == {GenerationFailed} \cup (1 .. NumVariants)

\* Contents of the feedback text area, as sequences of characters.
FeedbackTexts == { << >>, << " " >>, << "o", "k" >> }

-----------------------------------------------------------------------------
(* Python helpers *)

\* str.strip() on a sequence of characters.
Whitespace == {" ", "\t", "\n", "\r"}

RECURSIVE LStrip(_)
LStrip(s) == IF s # << >> /\ Head(s) \in Whitespace THEN LStrip(Tail(s)) ELSE s

RECURSIVE RStrip(_)
RStrip(s) ==
    IF s # << >> /\ s[Len(s)] \in Whitespace THEN RStrip(SubSeq(s, 1, Len(s) - 1)) ELSE s

Strip(s) == RStrip(LStrip(s))

\* Truth value of a session_state slot holding None or a string.
Truthy(v) == v # None /\ v.text # ""

\* The events an execution of the script produced so far, with one more.
Emit(s, e) == [s EXCEPT !.events = Append(@, e)]

GenerationEvents == {"generate_study_notes", "generate_quiz", "generate_flashcards"}

Count(seq, e) == Cardinality({i \in 1 .. Len(seq) : seq[i] = e})

Artifacts(s) == << s.transcript, s.notes, s.quiz, s.flashcards >>

-----------------------------------------------------------------------------
(* convert_to_wav: both temporary files are created before the decode; the  *)
(* copy of the upload is unlinked only after a successful export.           *)

ConvertToWav(files, n, conv) ==
    LET created == files \cup { << "temp_input", n >>, << "temp_output", n >> }
    IN  IF conv = "ok"
        THEN [raised |-> FALSE, files |-> created \ { << "temp_input", n >> }]
        ELSE [raised |-> TRUE, files |-> created]

(* transcribe_audio: UnknownValueError and RequestError are caught and      *)
(* turned into a message returned as the transcript; anything else          *)
(* propagates.                                                              *)

\* Mutant: RequestError is not caught.
TranscribeAudio_RequestErrorPropagates(rec) ==
    CASE rec.kind = "text" -> [raised |-> FALSE, text |-> rec.text]
      [] rec.kind = "UnknownValueError" -> [raised |-> FALSE, text |-> SentinelUnintelligible]
      [] OTHER -> [raised |-> TRUE, text |-> ""]

TranscribeAudio(rec) ==
    CASE rec.kind = "text" -> [raised |-> FALSE, text |-> rec.text]
      [] rec.kind = "UnknownValueError" -> [raised |-> FALSE, text |-> SentinelUnintelligible]
      [] rec.kind = "RequestError" -> [raised |-> FALSE, text |-> SentinelUnavailable]
      [] OTHER -> [raised |-> TRUE, text |-> ""]

(* except Exception as e: st.error(...), then the four artifacts are reset. *)

\* Mutant: the except branch forgets to reset the transcript.
SubmitExcept_KeepsTranscript(s) ==
    [Emit(s, "st.error") EXCEPT
        !.notes = None, !.quiz = None, !.flashcards = None]

SubmitExcept(s) ==
    [Emit(s, "st.error") EXCEPT
        !.transcript = None, !.notes = None, !.quiz = None, !.flashcards = None,
        !.notesAttempts = 0, !.notesFailed = FALSE]

(* try: the statements after a successful transcription.                    *)

\* Mutant: a successful submission forgets to reset quiz and flashcards.
SubmitSuccess_KeepsQuiz(s, n, text) ==
    [s EXCEPT
        !.tempFiles = @ \ { << "temp_output", n >> },
        !.transcript = [kind |-> "str", text |-> text, sub |-> n],
        !.notes = None,
        !.generate_quiz = FALSE, !.generate_flashcards = FALSE,
        !.notesAttempts = 0, !.notesFailed = FALSE]

\* Mutant: a successful submission forgets to reset the request flags.
SubmitSuccess_KeepsFlags(s, n, text) ==
    [s EXCEPT
        !.tempFiles = @ \ { << "temp_output", n >> },
        !.transcript = [kind |-> "str", text |-> text, sub |-> n],
        !.notes = None, !.quiz = None, !.flashcards = None,
        !.notesAttempts = 0, !.notesFailed = FALSE]

SubmitSuccess(s, n, text) ==
    [s EXCEPT
        !.tempFiles = @ \ { << "temp_output", n >> },
        !.transcript = [kind |-> "str", text |-> text, sub |-> n],
        !.notes = None, !.quiz = None, !.flashcards = None,
        !.generate_quiz = FALSE, !.generate_flashcards = FALSE,
        !.notesAttempts = 0, !.notesFailed = FALSE]

(* if submit and audio_file: ...                                            *)

SubmitHandler(s, n, conv, rec) ==
    LET c  == ConvertToWav(s.tempFiles, n, conv)
        s1 == [Emit(s, "convert_to_wav") EXCEPT !.tempFiles = c.files]
    IN  IF c.raised
        THEN SubmitExcept(s1)
        ELSE LET t  == TranscribeAudio(rec)
                 s2 == Emit(s1, "transcribe_audio")
             IN  IF t.raised THEN SubmitExcept(s2) ELSE SubmitSuccess(s2, n, t.text)

-----------------------------------------------------------------------------
(* The workflow steps, lines 127-146 and 269-270.  A generation call that   *)
(* raises ends the execution: the assignment and every later statement are  *)
(* skipped.                                                                 *)

Raise(s, call) ==
    [Emit(s, "exception") EXCEPT !.raised = TRUE, !.failedCall = call, !.pre = Artifacts(s)]

\* Mutant: a notes generation that raises is swallowed and the steps go on.
NotesStep_SwallowsFailure(s, out) ==
    IF s.raised \/ s.notes # None
    THEN s
    ELSE LET s1 == [Emit(s, "generate_study_notes") EXCEPT !.notesAttempts = @ + 1]
         IN  IF out = GenerationFailed
             THEN [s1 EXCEPT !.notesFailed = TRUE]
             ELSE [s1 EXCEPT !.notes = [kind |-> "str", text |-> "notes",
                                         from |-> s.transcript, ver |-> out],
                             !.returned.notes = out]

NotesStep(s, out) ==
    IF s.raised \/ s.notes # None
    THEN s
    ELSE LET s1 == [Emit(s, "generate_study_notes") EXCEPT !.notesAttempts = @ + 1]
         IN  IF out = GenerationFailed
             THEN [Raise(s1, "generate_study_notes") EXCEPT !.notesFailed = TRUE]
             ELSE [s1 EXCEPT !.notes = [kind |-> "str", text |-> "notes",
                                         from |-> s.transcript, ver |-> out],
                             !.returned.notes = out]

\* Mutant: a quiz generation that raises also drops the stored quiz.
QuizStep_ClearsOnFailure(s, out) ==
    IF s.raised \/ ~s.generate_quiz
    THEN s
    ELSE LET s1 == Emit(s, "generate_quiz")
         IN  IF out = GenerationFailed
             THEN [Raise(s1, "generate_quiz") EXCEPT !.quiz = None]
             ELSE [s1 EXCEPT !.quiz = [kind |-> "str", text |-> "quiz",
                                        from |-> s.notes, ver |-> out],
                             !.returned.quiz = out,
                             !.generate_quiz = FALSE]

QuizStep(s, out) ==
    IF s.raised \/ ~s.generate_quiz
    THEN s
    ELSE LET s1 == Emit(s, "generate_quiz")
         IN  IF out = GenerationFailed
             THEN Raise(s1, "generate_quiz")
             ELSE [s1 EXCEPT !.quiz = [kind |-> "str", text |-> "quiz",
                                        from |-> s.notes, ver |-> out],
                             !.returned.quiz = out,
                             !.generate_quiz = FALSE]

FlashcardsStep(s, out) ==
    IF s.raised \/ ~s.generate_flashcards
    THEN s
    ELSE LET s1 == Emit(s, "generate_flashcards")
         IN  IF out = GenerationFailed
             THEN Raise(s1, "generate_flashcards")
             ELSE [s1 EXCEPT !.flashcards = [kind |-> "str", text |-> "flashcards",
                                              from |-> s.notes, ver |-> out],
                             !.returned.flashcards = out,
                             !.generate_flashcards = FALSE]

\* Mutant: the length test is missing.
Workflow_NoThreshold(s, gen) ==
    IF ~Truthy(s.transcript)
    THEN s
    ELSE FlashcardsStep(QuizStep(NotesStep(s, gen.notes), gen.quiz), gen.flashcards)

Workflow(s, gen) ==
    IF ~Truthy(s.transcript)
    THEN s
    ELSE IF Len(s.transcript.text) > MinNotesLen
         THEN FlashcardsStep(QuizStep(NotesStep(s, gen.notes), gen.quiz), gen.flashcards)
         ELSE Emit(s, "st.info:too_short")

-----------------------------------------------------------------------------
(* The flashcard parsing loop, lines 156-176.  A text is a sequence of      *)
(* lines, a line a sequence of characters.                                  *)

FrontMarker == << "F", "r", "o", "n", "t", ":" >>
BackMarker == << "B", "a", "c", "k", ":" >>

\* line.startswith(prefix)
StartsWith(line, prefix) ==
    Len(line) >= Len(prefix) /\ SubSeq(line, 1, Len(prefix)) = prefix

\* line[len(prefix):]
After(line, prefix) == SubSeq(line, Len(prefix) + 1, Len(line))

\* st.session_state.flashcards.strip().splitlines(): the whitespace-only lines
\* at both ends go, the first line loses its leading and the last line its
\* trailing whitespace.
RECURSIVE DropLeadingBlank(_)
DropLeadingBlank(lines) ==
    IF lines # << >> /\ Strip(Head(lines)) = << >>
    THEN DropLeadingBlank(Tail(lines))
    ELSE lines

RECURSIVE DropTrailingBlank(_)
DropTrailingBlank(lines) ==
    IF lines # << >> /\ Strip(lines[Len(lines)]) = << >>
    THEN DropTrailingBlank(SubSeq(lines, 1, Len(lines) - 1))
    ELSE lines

StripSplitLines(text) ==
    LET kept == DropTrailingBlank(DropLeadingBlank(text))
    IN  [i \in 1 .. Len(kept) |->
            LET l1 == IF i = 1 THEN LStrip(kept[i]) ELSE kept[i]
            IN  IF i = Len(kept) THEN RStrip(l1) ELSE l1]

\* current_front / current_back: None, or a string.
Unset == [set |-> FALSE, text |-> << >>]
Holding(text) == [set |-> TRUE, text |-> text]

\* The truth value of current_front / current_back: None and "" are false.
PyTrue(acc) == acc.set /\ acc.text # << >>

LoopStart == [cards |-> << >>, current_front |-> Unset, current_back |-> Unset]

\* if current_front and current_back: cards.append((current_front, current_back))
AppendCard(st) ==
    IF PyTrue(st.current_front) /\ PyTrue(st.current_back)
    THEN Append(st.cards, << st.current_front.text, st.current_back.text >>)
    ELSE st.cards

\* Mutant: a Front: line does not reset current_back.
LoopBody_KeepsBack(st, rawline) ==
    LET line == Strip(rawline)
    IN  IF StartsWith(line, FrontMarker)
        THEN [st EXCEPT !.cards = AppendCard(st),
                        !.current_front = Holding(Strip(After(line, FrontMarker)))]
        ELSE IF StartsWith(line, BackMarker) /\ PyTrue(st.current_front)
             THEN [st EXCEPT !.current_back = Holding(Strip(After(line, BackMarker)))]
             ELSE st

\* Mutant: the text after the marker is not stripped.
LoopBody_NoStrip(st, rawline) ==
    LET line == Strip(rawline)
    IN  IF StartsWith(line, FrontMarker)
        THEN [cards |-> AppendCard(st),
              current_front |-> Holding(After(line, FrontMarker)),
              current_back |-> Unset]
        ELSE IF StartsWith(line, BackMarker) /\ PyTrue(st.current_front)
             THEN [st EXCEPT !.current_back = Holding(After(line, BackMarker))]
             ELSE st

\* The body of `for line in lines`.
LoopBody(st, rawline) ==
    LET line == Strip(rawline)
    IN  IF StartsWith(line, FrontMarker)
        THEN [cards |-> AppendCard(st),
              current_front |-> Holding(Strip(After(line, FrontMarker))),
              current_back |-> Unset]
        ELSE IF StartsWith(line, BackMarker) /\ PyTrue(st.current_front)
             THEN [st EXCEPT !.current_back = Holding(Strip(After(line, BackMarker)))]
             ELSE st

RECURSIVE Loop(_, _)
Loop(st, lines) ==
    IF lines = << >> THEN st ELSE Loop(LoopBody(st, Head(lines)), Tail(lines))

\* Mutant: the card pending after the last line is not appended.
ParseFlashcards_NoFinalCard(text) == Loop(LoopStart, StripSplitLines(text)).cards

\* Lines 156-176: the cards of a flashcards text.
ParseFlashcards(text) == AppendCard(Loop(LoopStart, StripSplitLines(text)))

-----------------------------------------------------------------------------
(* The feedback section, lines 272-283; reached only when nothing raised.   *)

FeedbackHandler(s, text, writeOk) ==
    IF s.raised
    THEN s
    ELSE IF Strip(text) # << >>
         THEN IF writeOk
              THEN [Emit(s, "st.success") EXCEPT !.feedback_log = Append(@, text)]
              ELSE Emit(s, "st.error:feedback")
         ELSE Emit(s, "st.warning")

-----------------------------------------------------------------------------
(* One execution of the script *)

\* The response each generate_* call of an execution returned (0: none).
NothingReturned == [notes |-> GenerationFailed, quiz |-> GenerationFailed,
                    flashcards |-> GenerationFailed]

\* The session state an execution starts from.
Start(action, conv, rec) ==
    [ transcript |-> transcript, notes |-> notes, quiz |-> quiz, flashcards |-> flashcards,
      generate_quiz |-> generate_quiz, generate_flashcards |-> generate_flashcards,
      tempFiles |-> tempFiles, feedback_log |-> feedback_log,
      notesAttempts |-> notesAttempts, notesFailed |-> notesFailed,
      action |-> action, convert |-> conv, recognize |-> rec,
      events |-> << >>, raised |-> FALSE, failedCall |-> "", pre |-> << >>,
      returned |-> NothingReturned, feedback |-> << >>, writeOk |-> FALSE ]

\* The state an execution leaves behind.
Finish(s) ==
    /\ s.notesAttempts <= MaxNotesAttempts
    /\ transcript' = s.transcript
    /\ notes' = s.notes
    /\ quiz' = s.quiz
    /\ flashcards' = s.flashcards
    /\ generate_quiz' = s.generate_quiz
    /\ generate_flashcards' = s.generate_flashcards
    /\ tempFiles' = s.tempFiles
    /\ feedback_log' = s.feedback_log
    /\ notesAttempts' = s.notesAttempts
    /\ notesFailed' = s.notesFailed
    /\ run' = [ action |-> s.action, convert |-> s.convert, recognize |-> s.recognize,
                events |-> s.events, raised |-> s.raised,
                failedCall |-> s.failedCall, pre |-> s.pre,
                returned |-> s.returned, feedback |-> s.feedback, writeOk |-> s.writeOk ]
    /\ UNCHANGED parserVars

\* The outcomes to choose from for a generation call: all of them when the
\* session state allows the call, a fixed one when the call cannot be made.
OutcomesIf(possible) == IF possible THEN GenerateOutcomes ELSE {GenerationFailed}

Generations(s) ==
    LET long == Truthy(s.transcript) /\ Len(s.transcript.text) > MinNotesLen
    IN  [ notes : OutcomesIf(long /\ s.notes = None),
          quiz : OutcomesIf(long /\ s.generate_quiz),
          flashcards : OutcomesIf(long /\ s.generate_flashcards) ]

\* An outcome is chosen only for a call the execution makes: the outcome of a
\* call that is not made is fixed, so that it is not enumerated.
OnlyCallsMade(s, gen) ==
    /\ Count(s.events, "generate_study_notes") = 0 => gen.notes = GenerationFailed
    /\ Count(s.events, "generate_quiz") = 0 => gen.quiz = GenerationFailed
    /\ Count(s.events, "generate_flashcards") = 0 => gen.flashcards = GenerationFailed

Execute(s, gen) == OnlyCallsMade(s, gen) /\ Finish(s)

\* The sidebar button "Generate Quiz" was clicked.
RequestQuiz ==
    LET s == [Start("request_quiz", "", "") EXCEPT !.generate_quiz = TRUE]
    IN  \E gen \in Generations(s) :
            /\ Execute(Workflow(s, gen), gen)
            /\ UNCHANGED submissions

\* The sidebar button "Generate Flashcards" was clicked.
RequestFlashcards ==
    LET s == [Start("request_flashcards", "", "") EXCEPT !.generate_flashcards = TRUE]
    IN  \E gen \in Generations(s) :
            /\ Execute(Workflow(s, gen), gen)
            /\ UNCHANGED submissions

\* "Process Audio" was clicked with a file in the uploader.
ProcessAudio ==
    \E conv \in ConvertOutcomes, rec \in RecognizeOutcomes :
        /\ submissions < MaxSubmissions
        /\ conv # "ok" => rec.kind = "OtherError"   \* transcribe_audio is not reached
        /\ submissions' = submissions + 1
        /\ LET s == SubmitHandler(Start("submit", conv, IF conv = "ok" THEN rec.kind ELSE ""),
                                  submissions + 1, conv, rec)
           IN  \E gen \in Generations(s) : Execute(Workflow(s, gen), gen)

\* "Process Audio" was clicked with no file in the uploader.
ProcessNoFile ==
    LET s == Start("submit_no_file", "", "")
    IN  \E gen \in Generations(s) :
            /\ Execute(Workflow(s, gen), gen)
            /\ UNCHANGED submissions

\* "Submit Feedback" was clicked.
SubmitFeedback ==
    LET s == Start("submit_feedback", "", "")
    IN  \E text \in FeedbackTexts, writeOk \in BOOLEAN, gen \in Generations(s) :
            /\ Len(feedback_log) < MaxFeedback
            /\ Strip(text) = << >> => writeOk   \* the log file is not opened
            /\ Execute(FeedbackHandler(Workflow([s EXCEPT !.feedback = text,
                                                           !.writeOk = writeOk], gen),
                                       text, writeOk), gen)
            /\ UNCHANGED submissions

\* A new session.
SessionInit ==
    /\ transcript = None
    /\ notes = None
    /\ quiz = None
    /\ flashcards = None
    /\ generate_quiz = FALSE
    /\ generate_flashcards = FALSE
    /\ tempFiles = {}
    /\ feedback_log = << >>
    /\ submissions = 0
    /\ notesAttempts = 0
    /\ notesFailed = FALSE
    /\ run = [ action |-> "", convert |-> "", recognize |-> "", events |-> << >>,
               raised |-> FALSE, failedCall |-> "", pre |-> << >>,
               returned |-> NothingReturned, feedback |-> << >>, writeOk |-> FALSE ]

Init ==
    /\ SessionInit
    /\ parseInput = [form |-> "lines", blocks |-> << >>, lines |-> << >>]
    /\ cards = << >>
    /\ parsed = FALSE

Next ==
    \/ RequestQuiz
    \/ RequestFlashcards
    \/ ProcessAudio
    \/ ProcessNoFile
    \/ SubmitFeedback

Spec == Init /\ [][Next]_vars

-----------------------------------------------------------------------------
(* The parsing loop on its own: it is handed a flashcards text and builds    *)
(* the cards.                                                               *)

\* Lines of a flashcards text: Front: and Back: lines with and without text
\* after the marker, with leading whitespace, a lower-case marker, other text
\* and a blank line.
LineKinds ==
    { FrontMarker \o << " ", "a" >>,
      FrontMarker,
      << " ", " " >> \o FrontMarker \o << "b" >>,
      BackMarker \o << " ", "x" >>,
      BackMarker,
      << "f", "r", "o", "n", "t", ":", " ", "a" >>,
      << "n", "o", "t", "e" >>,
      << >> }

SeqsUpTo(S, n) == UNION { [1 .. k -> S] : k \in 0 .. n }

\* The texts A_i and B_i of well-formed blocks `Front: A_i` / `Back: B_i`.
BlockFronts == { << "q" >>, << " ", "q", "?", " " >>, BackMarker }
BlockBacks == { << "b" >>, << " ", "b", " " >>, << >>, << " " >> }

RenderBlock(block) ==
    << FrontMarker \o << " " >> \o block[1], BackMarker \o << " " >> \o block[2] >>

RECURSIVE RenderBlocks(_)
RenderBlocks(blocks) ==
    IF blocks = << >> THEN << >>
    ELSE RenderBlock(Head(blocks)) \o RenderBlocks(Tail(blocks))

ParseInputs ==
    { [form |-> "lines", blocks |-> << >>, lines |-> t] : t \in SeqsUpTo(LineKinds, MaxLines) }
        \cup { [form |-> "blocks", blocks |-> b, lines |-> RenderBlocks(b)] :
                 b \in SeqsUpTo(BlockFronts \X BlockBacks, MaxBlocks) }

ParserInit ==
    /\ SessionInit
    /\ parseInput \in ParseInputs
    /\ cards = << >>
    /\ parsed = FALSE

Parse ==
    /\ ~parsed
    /\ parsed' = TRUE
    /\ cards' = ParseFlashcards(parseInput.lines)
    /\ UNCHANGED << transcript, notes, quiz, flashcards, generate_quiz, generate_flashcards,
                    tempFiles, feedback_log, submissions, notesAttempts, notesFailed, run,
                    parseInput >>

ParserNext == Parse

ParserSpec == ParserInit /\ [][ParserNext]_vars

-----------------------------------------------------------------------------
(* Properties of the latest execution *)

SubmitRan == run.action = "submit"

\* The submit handler took its except branch.
SubmitFailed == SubmitRan /\ Count(run.events, "st.error") > 0

TranscoderFailed == SubmitRan /\ run.convert \in {"UnsupportedFormat", "DecodeError"}

ServiceUnavailable == SubmitRan /\ run.convert = "ok" /\ run.recognize = "RequestError"

Called(call) == Count(run.events, call) > 0

NoGeneration == \A call \in GenerationEvents : ~Called(call)

TranscriptIsShort == transcript # None /\ Len(transcript.text) <= MinNotesLen

TranscriptIsLong == transcript # None /\ Len(transcript.text) > MinNotesLen

-----------------------------------------------------------------------------
\* C1: after every Process Audio execution that carried a file, successful or
\* not, no quiz or flashcards are stored and both request flags are false; when
\* the processing failed, transcript and notes are unset as well.
C1_SubmitClearsEverything ==
    SubmitRan =>
        /\ quiz = None /\ flashcards = None
        /\ ~generate_quiz /\ ~generate_flashcards
        /\ (SubmitFailed => transcript = None /\ notes = None)

\* C2: when an execution called generate_quiz (generate_flashcards) because its
\* request flag was set, that flag is false when the execution ends, whether the
\* call returned or raised.
C2_RequestFlagConsumed ==
    /\ (Called("generate_quiz") => ~generate_quiz)
    /\ (Called("generate_flashcards") => ~generate_flashcards)

\* C3: generate_study_notes is called at most once for a stored transcript.
C3_NotesAttemptedAtMostOnce == notesAttempts <= 1

\* C4: stored notes were generated from the stored transcript, and a stored
\* quiz or stored flashcards were generated from the stored notes.
C4_ArtifactsDeriveFromCurrent ==
    /\ (notes # None => transcript # None /\ notes.from = transcript)
    /\ (quiz # None => notes # None /\ quiz.from = notes)
    /\ (flashcards # None => notes # None /\ flashcards.from = notes)

\* A second audio file's transcript with notes, quiz and flashcards of its own,
\* stored after a first audio file went through the except branch.
C4_Witness ==
    /\ transcript # None /\ transcript.sub = 2
    /\ << "temp_input", 1 >> \in tempFiles
    /\ notes # None /\ quiz # None /\ flashcards # None

\* C5: when an execution ends, notes are stored iff a transcript is stored, it
\* is longer than 50 characters and no notes generation for it raised.
C5_NotesIffLongAndNoError ==
    (notes # None) <=> (TranscriptIsLong /\ ~notesFailed)

\* C6: while the stored transcript has 50 characters or fewer, an execution
\* calls no generation, reports "too short" and leaves notes unset, also with a
\* request flag set; a successful submission of a longer transcript calls
\* generate_study_notes in the same execution.
C6_ShortTranscriptNeverGenerates ==
    /\ TranscriptIsShort =>
          NoGeneration /\ notes = None /\ Called("st.info:too_short")
    /\ (SubmitRan /\ TranscriptIsLong) => Called("generate_study_notes")

\* A quiz request on a 50-character transcript.
C6_Witness ==
    /\ run.action = "request_quiz" /\ generate_quiz
    /\ transcript # None /\ Len(transcript.text) = MinNotesLen

\* C7: no temporary file of a submission outlives its execution.
C7_TempFilesReleased == tempFiles = {}

\* C8: when the speech recognition service was unavailable during a submission,
\* transcript, notes, quiz and flashcards are all unset afterwards.
C8_UnavailableLeavesEmpty ==
    ServiceUnavailable =>
        transcript = None /\ notes = None /\ quiz = None /\ flashcards = None

\* C8 (amended): when the speech recognition service was unavailable during a
\* submission, the stored transcript is the message "Speech recognition service
\* unavailable." (39 characters, reported as too short), and notes, quiz and
\* flashcards are unset, both request flags are false and no generation is called.
C8_UnavailableStoresSentinel ==
    ServiceUnavailable =>
        /\ transcript # None /\ transcript.text = SentinelUnavailable
        /\ Len(transcript.text) = 39
        /\ notes = None /\ quiz = None /\ flashcards = None
        /\ ~generate_quiz /\ ~generate_flashcards
        /\ NoGeneration /\ Called("st.info:too_short")

\* The service was unavailable for the second audio file.
C8_Witness == ServiceUnavailable /\ submissions = 2

\* C9: when the transcoder failed during a submission, transcript, notes, quiz
\* and flashcards are all unset afterwards, exactly one error was shown, no
\* generation was called, nothing was left uncaught and the session takes
\* further actions.
C9_TranscoderFailureLeavesEmpty ==
    TranscoderFailed =>
        /\ transcript = None /\ notes = None /\ quiz = None /\ flashcards = None
        /\ Count(run.events, "st.error") = 1
        /\ NoGeneration
        /\ ~run.raised
        /\ ENABLED RequestQuiz

\* The transcoder failed on the second audio file, after the first one succeeded
\* and with a quiz request pending.
C9_Witness ==
    /\ TranscoderFailed /\ submissions = 2
    /\ << "temp_input", 1 >> \notin tempFiles
    /\ generate_quiz

\* C10: a generation call that raised left transcript, notes, quiz and
\* flashcards exactly as they were before the call, and the transcript is
\* still stored.
C10_FailedGenerationKeepsArtifacts ==
    run.failedCall # "" =>
        /\ << transcript, notes, quiz, flashcards >> = run.pre
        /\ Truthy(transcript)

\* A quiz regeneration raised with a quiz and flashcards already stored.
C10_Witness ==
    /\ run.failedCall = "generate_quiz"
    /\ notes # None /\ quiz # None /\ flashcards # None

-----------------------------------------------------------------------------
(* Properties of one execution, as a step from the state before it *)

WorkflowState ==
    << transcript, notes, quiz, flashcards, generate_quiz, generate_flashcards >>

WorkflowStateOf(s) ==
    << s.transcript, s.notes, s.quiz, s.flashcards, s.generate_quiz, s.generate_flashcards >>

\* The first position of an event in the latest execution (0: absent).
Pos(e) ==
    IF Called(e) THEN CHOOSE i \in 1 .. Len(run.events) :
                          /\ run.events[i] = e
                          /\ \A j \in 1 .. (i - 1) : run.events[j] # e
    ELSE 0

SubmitSucceeded == SubmitRan /\ ~SubmitFailed

\* C11: an execution triggered by Submit Feedback leaves transcript, notes,
\* quiz, flashcards and both request flags as they were.
C11_FeedbackKeepsWorkflowState ==
    [][run'.action = "submit_feedback" => WorkflowState' = WorkflowState]_vars

\* C12: a request is a trigger, not a toggle or a counter.  An execution calls
\* each of generate_quiz and generate_flashcards at most once; clicking
\* Generate Quiz with the flag already set does what an execution without the
\* click does; clicking it after a fulfilled request calls generate_quiz again
\* on the same notes; and a call that returns leaves its response in the slot,
\* made from the stored notes, with the flag reset.
C12_RequestsAreIdempotentTriggers ==
    [][ /\ Count(run'.events, "generate_quiz") <= 1
        /\ Count(run'.events, "generate_flashcards") <= 1
        /\ (run'.action = "request_quiz" /\ generate_quiz) =>
              \E gen \in Generations(Start("request_quiz", "", "")) :
                  LET s == Workflow(Start("request_quiz", "", ""), gen)
                  IN  /\ WorkflowState' = WorkflowStateOf(s)
                      /\ run'.events = s.events
        /\ (run'.action = "request_quiz" /\ quiz # None /\ ~generate_quiz) =>
              Count(run'.events, "generate_quiz") = 1 /\ notes' = notes
        /\ (run'.action = "request_flashcards" /\ flashcards # None /\ ~generate_flashcards) =>
              Count(run'.events, "generate_flashcards") = 1 /\ notes' = notes
        /\ run'.returned.quiz # GenerationFailed =>
              /\ quiz' = [kind |-> "str", text |-> "quiz", from |-> notes',
                          ver |-> run'.returned.quiz]
              /\ ~generate_quiz'
        /\ run'.returned.flashcards # GenerationFailed =>
              /\ flashcards' = [kind |-> "str", text |-> "flashcards", from |-> notes',
                                ver |-> run'.returned.flashcards]
              /\ ~generate_flashcards'
      ]_vars

\* A quiz request fulfilled with the second possible response, with
\* flashcards stored as well.
C12_Witness ==
    /\ run.action = "request_quiz" /\ run.returned.quiz = 2
    /\ quiz # None /\ quiz.ver = 2 /\ flashcards # None /\ ~generate_quiz

\* C15: with notes stored, an execution in which a request flag is set calls
\* that request's generation exactly once, whatever the other request does.
C15_RequestsFulfilledIndependently ==
    /\ (notes # None /\ (generate_quiz \/ Called("generate_quiz"))) =>
          Count(run.events, "generate_quiz") = 1
    /\ (notes # None /\ (generate_flashcards \/ Called("generate_flashcards"))) =>
          Count(run.events, "generate_flashcards") = 1

\* C17: the external calls of an execution happen one after the other, each at
\* most once, in the order convert, transcribe, notes, quiz, flashcards; and
\* generate_quiz or generate_flashcards is called only with notes stored that
\* were generated from the stored transcript.
C17_CallsAreOrdered ==
    /\ \A e \in {"convert_to_wav", "transcribe_audio"} \cup GenerationEvents :
          Count(run.events, e) <= 1
    /\ Called("transcribe_audio") =>
          Called("convert_to_wav") /\ Pos("convert_to_wav") < Pos("transcribe_audio")
    /\ Called("generate_study_notes") =>
          /\ Pos("convert_to_wav") < Pos("generate_study_notes")
          /\ Pos("transcribe_audio") < Pos("generate_study_notes")
          /\ SubmitRan => Called("transcribe_audio")
    /\ \A e \in {"generate_quiz", "generate_flashcards"} :
          Called(e) =>
              /\ notes # None /\ transcript # None /\ notes.from = transcript
              /\ Pos("generate_study_notes") < Pos(e)
              /\ run.failedCall # "generate_study_notes"
    /\ (Called("generate_quiz") /\ Called("generate_flashcards")) =>
          Pos("generate_quiz") < Pos("generate_flashcards")

\* An execution that called notes generation and then quiz generation, both
\* returning.
C17_Witness ==
    /\ Called("generate_study_notes")
    /\ Called("generate_quiz")
    /\ notes # None /\ quiz # None

\* C18: an execution triggered by Submit Feedback appends the feedback to the
\* log when it is not blank (and the write succeeds) and appends nothing when
\* it is blank.
C18_FeedbackAppendsOneEntry ==
    [][run'.action = "submit_feedback" =>
          /\ (Strip(run'.feedback) # << >> /\ run'.writeOk) =>
                feedback_log' = Append(feedback_log, run'.feedback)
          /\ Strip(run'.feedback) = << >> => feedback_log' = feedback_log
      ]_vars

\* C19: an execution that leaves no transcript longer than 50 characters calls
\* no generation; a request flag set while no such transcript is stored stays
\* set, without a call, through every execution but a successful submission;
\* and a successful submission resets both flags before the quiz and
\* flashcards steps, which are therefore not called in that execution.
C19_RequestWithoutNotesHasNoEffect ==
    [][ /\ ~TranscriptIsLong' => NoGeneration'
        /\ (generate_quiz /\ ~TranscriptIsLong /\ ~SubmitSucceeded') =>
              generate_quiz' /\ ~Called("generate_quiz")'
        /\ (generate_flashcards /\ ~TranscriptIsLong /\ ~SubmitSucceeded') =>
              generate_flashcards' /\ ~Called("generate_flashcards")'
        /\ (SubmitSucceeded' /\ run' # run) =>
              /\ ~generate_quiz' /\ ~generate_flashcards'
              /\ ~Called("generate_quiz")' /\ ~Called("generate_flashcards")'
      ]_vars

\* A second audio file submitted successfully, with a long transcript, after
\* the first one went through the except branch.
C19_Witness ==
    /\ SubmitSucceeded /\ TranscriptIsLong /\ notes # None
    /\ transcript.sub = 2 /\ << "temp_input", 1 >> \in tempFiles

-----------------------------------------------------------------------------
(* Properties of the parsing loop *)

IsFrontLine(l) == StartsWith(Strip(l), FrontMarker)
IsBackLine(l) == StartsWith(Strip(l), BackMarker)
FrontText(l) == Strip(After(Strip(l), FrontMarker))
BackText(l) == Strip(After(Strip(l), BackMarker))

BlocksParsed == parsed /\ parseInput.form = "blocks"

TrimmedBlocks ==
    [i \in 1 .. Len(parseInput.blocks) |->
        << Strip(parseInput.blocks[i][1]), Strip(parseInput.blocks[i][2]) >>]

HasBack(card) == card[2] # << >>

\* C13: for N blocks `Front: A_i` / `Back: B_i`, each A_i not blank, the loop
\* returns the N cards (trim(A_i), trim(B_i)), in order.
C13_EveryBlockYieldsItsCard == BlocksParsed => cards = TrimmedBlocks

\* C13 (amended): for N blocks `Front: A_i` / `Back: B_i`, each A_i not blank,
\* the loop returns, in order, the card (trim(A_i), trim(B_i)) of every block
\* whose B_i is not blank: exactly N cards when no B_i is blank.
C13_EveryBlockWithBackYieldsItsCard ==
    BlocksParsed => cards = SelectSeq(TrimmedBlocks, HasBack)

\* Three blocks with text to trim, all three parsed.
C13_Witness ==
    /\ BlocksParsed
    /\ Len(parseInput.blocks) = 3 /\ Len(cards) = 3
    /\ parseInput.blocks[1][1] = << " ", "q", "?", " " >>
    /\ parseInput.blocks[2][2] = << " ", "b", " " >>

\* Line i is a Front: line with text, followed by a Back: line before the
\* next Front: line.
BackOf(i) ==
    { j \in (i + 1) .. Len(parseInput.lines) :
        /\ IsBackLine(parseInput.lines[j])
        /\ \A m \in (i + 1) .. (j - 1) : ~IsFrontLine(parseInput.lines[m]) }

CompleteFronts ==
    { i \in 1 .. Len(parseInput.lines) :
        /\ IsFrontLine(parseInput.lines[i])
        /\ FrontText(parseInput.lines[i]) # << >>
        /\ BackOf(i) # {} }

\* C14: every card has a non-empty front taken from a Front: line and a back
\* taken from a Back: line after it with no Front: line in between, and there
\* are no more cards than such Front: lines; so no Front: line, an orphan
\* Back:, a Front: followed by a Front: and a trailing Front: yield no card.
C14_CardsComeFromFrontBackPairs ==
    parsed =>
        /\ \A k \in 1 .. Len(cards) :
              /\ cards[k][1] # << >>
              /\ \E i \in CompleteFronts :
                    /\ cards[k][1] = FrontText(parseInput.lines[i])
                    /\ \E j \in BackOf(i) : cards[k][2] = BackText(parseInput.lines[j])
        /\ Len(cards) <= Cardinality(CompleteFronts)

\* An orphan Back:, a Front: directly followed by a Front:, then one card.
C14_Witness ==
    /\ parsed /\ parseInput.form = "lines" /\ Len(parseInput.lines) = 4
    /\ IsBackLine(parseInput.lines[1])
    /\ IsFrontLine(parseInput.lines[2])
    /\ IsFrontLine(parseInput.lines[3])
    /\ IsBackLine(parseInput.lines[4])
    /\ Len(cards) = 1

\* The algorithm of the specification: an accumulator is set once a marker
\* line has assigned it, whatever the text, and unset initially or when cleared.
SpecEmit(st) ==
    IF st.current_front.set /\ st.current_back.set
    THEN Append(st.cards, << st.current_front.text, st.current_back.text >>)
    ELSE st.cards

SpecStep(st, rawline) ==
    LET line == Strip(rawline)
    IN  IF StartsWith(line, FrontMarker)
        THEN [cards |-> SpecEmit(st),
              current_front |-> Holding(Strip(After(line, FrontMarker))),
              current_back |-> Unset]
        ELSE IF StartsWith(line, BackMarker) /\ st.current_front.set
             THEN [st EXCEPT !.current_back = Holding(Strip(After(line, BackMarker)))]
             ELSE st

RECURSIVE SpecLoop(_, _)
SpecLoop(st, lines) ==
    IF lines = << >> THEN st ELSE SpecLoop(SpecStep(st, Head(lines)), Tail(lines))

SpecParse(lines) == SpecEmit(SpecLoop(LoopStart, lines))

NoEmptyRemainder ==
    \A i \in 1 .. Len(parseInput.lines) :
        /\ IsFrontLine(parseInput.lines[i]) => FrontText(parseInput.lines[i]) # << >>
        /\ IsBackLine(parseInput.lines[i]) => BackText(parseInput.lines[i]) # << >>

\* C16: for every input the cards of the loop are the cards of the specified
\* algorithm.
C16_LoopEqualsSpecifiedAlgorithm == parsed => cards = SpecParse(parseInput.lines)

\* C16 (amended): for every input whose Front: and Back: lines all have text
\* after the marker, the cards of the loop are the cards of the specified
\* algorithm.
C16_LoopEqualsSpecifiedAlgorithmOnNonEmpty ==
    (parsed /\ NoEmptyRemainder) => cards = SpecParse(parseInput.lines)

\* Two cards parsed from free lines whose markers all have text.
C16_Witness ==
    /\ parsed /\ parseInput.form = "lines" /\ NoEmptyRemainder
    /\ Len(cards) = 2

====
